---- MODULE Spec2Model ----
(***************************************************************************)
(* Model of src/libmime/lang_detection.c (rspamd language detector):       *)
(*   - the n-gram window walk (rspamd_language_detector_next_ngramm as     *)
(*     driven by the loop of rspamd_language_detector_detect_word),        *)
(*   - the stratified sampler (rspamd_language_detector_random_select),    *)
(*   - the two candidate scans (process_ngramm_full / _update),            *)
(*   - the entry point rspamd_language_detector_detect.                    *)
(* Each behaviour exercises one of the four, chosen by the initial state.  *)
(***************************************************************************)
EXTENDS Integers, Sequences, FiniteSets, TLC

VARIABLES
    \* ---- window walk (detect_word loop over next_ngramm)
    tok,          \* rspamd_stat_token_t: the token's UChars, tok->len = Len(tok)
    type,         \* enum rspamd_language_gramm_type
    wlen,         \* guint wlen
    cur,          \* goffset cur
    window,       \* UChar window[3]
    emitted,      \* windows left in `window` by each successful call, in order
    tok_reads,    \* indices i of every read *(((UChar *)tok->begin) + i)
    wpc,          \* position in detect_word: idle | switch | loop | done
    \* ---- random_select
    ntokens,      \* ucs_tokens->len
    nwords,       \* guint nwords
    step_len, remainder, i, out_idx,
    offsets_out,  \* goffset *offsets_out: the slots written so far, slot -> index
    rpc,          \* idle | start | loop | done | abort
    \* ---- candidate scans
    d,            \* struct rspamd_lang_detector
    candidates,   \* GHashTable *candidates: name -> rspamd_lang_detector_res
    candidates_ref, \* a second table, given a full scan for every window
    orphans,      \* g_malloc'ed results that no table refers to
    scanned,      \* the windows processed so far: [window, type, mode]
    spc,          \* idle | scan
    \* ---- detect
    ucs_tokens,   \* GPtrArray *ucs_tokens
    words_len,    \* gsize words_len
    result,       \* the const gchar * the caller receives
    dpc           \* idle | call | done

walk_vars   == <<tok, type, wlen, cur, window, emitted, tok_reads, wpc>>
select_vars == <<ntokens, nwords, step_len, remainder, i, out_idx, offsets_out, rpc>>
scan_vars   == <<candidates, candidates_ref, orphans, scanned, spc>>
detect_vars == <<ucs_tokens, words_len, result, dpc>>
vars == <<walk_vars, select_vars, d, scan_vars, detect_vars>>

----------------------------------------------------------------------------
(* Bounds of the model *)
MaxLen == 4
MaxTokens == 5
MaxWindows == 3

(* Program constants *)
default_short_text_limit == 200

----------------------------------------------------------------------------
(* Values *)
Space == " "
Chars == {"e", "n", "t"}
\* what a read outside the token's characters may yield: any UChar at all
OutOfBoundsVals == {"e", Space, "NUL"}
Uninit == "uninit"
Unset == "unset"
NULL == "NULL"
Garbage == "garbage"

rs_unigramm == 0
rs_bigramm == 1
rs_trigramm == 2
GrammTypes == {rs_unigramm, rs_bigramm, rs_trigramm}

RECURSIVE SeqsUpTo(_, _)
SeqsUpTo(S, n) ==
    IF n = 0 THEN {<<>>}
    ELSE LET shorter == SeqsUpTo(S, n - 1)
         IN shorter \cup {Append(s, c) : s \in {t \in shorter : Len(t) = n - 1}, c \in S}

Tokens == SeqsUpTo(Chars, MaxLen)

----------------------------------------------------------------------------
(* rspamd_language_detector_next_ngramm *)

\* *(((UChar *)tok->begin) + idx): a character of the token, or, outside it,
\* whatever the memory behind the token holds (mem, indexed from tok->len)
TokAt(t, idx, mem) ==
    IF idx < Len(t) THEN t[idx + 1] ELSE mem[idx - Len(t)]

\* the walk from offset 0 reads at most wlen - 1 <= 2 UChars past tok->len
MemContents == [0 .. 2 -> OutOfBoundsVals]

\* next_ngramm with `return cur_off + wlen`: the walk advancing by a whole
\* window instead of by one character
next_ngramm_skip(t, win, wl, cur_off, mem) ==
    IF wl > 1 /\ cur_off # 0 /\ cur_off + wl > Len(t) + 1
    THEN [ret |-> -1, window |-> win, reads |-> {}]
    ELSE IF wl = 1 /\ Len(t) >= cur_off
    THEN [ret |-> -1, window |-> win, reads |-> {}]
    ELSE [ret |-> cur_off + wl,
          window |-> [k \in 1 .. 3 |-> IF k <= wl THEN TokAt(t, cur_off + k - 1, mem)
                                       ELSE win[k]],
          reads |-> {cur_off + k : k \in 0 .. wl - 1}]

rspamd_language_detector_next_ngramm(t, win, wl, cur_off, mem) ==
    LET len == Len(t)
        \* for (i = 0; i < wlen; i ++) window[i] = tok[cur_off + i];
        normal(w0) == [k \in 1 .. 3 |->
                         IF k <= wl THEN TokAt(t, cur_off + k - 1, mem) ELSE w0[k]]
        normal_reads == {cur_off + k : k \in 0 .. wl - 1}
        \* window[0] = ' '; for (i = 0; i < wlen - 1; i ++) window[i + 1] = tok[i];
        leading == [k \in 1 .. 3 |->
                      IF k = 1 THEN Space
                      ELSE IF k <= wl THEN TokAt(t, k - 2, mem) ELSE win[k]]
        leading_reads == 0 .. wl - 2
        \* for (i = 0; i < wlen - 1; i ++) window[i] = tok[cur_off + i];
        \* window[wlen - 1] = ' ';
        trailing == [k \in 1 .. 3 |->
                       IF k < wl THEN TokAt(t, cur_off + k - 1, mem)
                       ELSE IF k = wl THEN Space ELSE win[k]]
        trailing_reads == {cur_off + k : k \in 0 .. wl - 2}
    IN IF wl > 1
       THEN IF cur_off = 0
            THEN \* the leading window is built, then control reaches "Normal case"
                 [ret |-> cur_off + 1, window |-> normal(leading),
                  reads |-> leading_reads \cup normal_reads]
            ELSE IF cur_off + wl = len + 1
            THEN \* the trailing window is built, then control reaches "Normal case"
                 [ret |-> cur_off + 1, window |-> normal(trailing),
                  reads |-> trailing_reads \cup normal_reads]
            ELSE IF cur_off + wl > len + 1
            THEN [ret |-> -1, window |-> win, reads |-> {}]
            ELSE [ret |-> cur_off + 1, window |-> normal(win), reads |-> normal_reads]
       ELSE IF len >= cur_off
            THEN [ret |-> -1, window |-> win, reads |-> {}]
            ELSE [ret |-> cur_off + 1,
                  window |-> [win EXCEPT ![1] = TokAt(t, cur_off, mem)],
                  reads |-> {cur_off}]

\* switch (type) of detect_word / update_guess
WlenOf(ty) ==
    CASE ty = rs_unigramm -> 1
      [] ty = rs_bigramm -> 2
      [] ty = rs_trigramm -> 3

----------------------------------------------------------------------------
(* Language tables *)

\* g_hash_table_lookup (ngramms, window) with the n-UChar hash and equality:
\* the key is the first n UChars of window; GPOINTER_TO_UINT (NULL) is 0
NgrammsOf(elt, ty) ==
    CASE ty = rs_unigramm -> elt.unigramms
      [] ty = rs_bigramm -> elt.bigramms
      [] ty = rs_trigramm -> elt.trigramms

Lookup(ngramms, win, ty) ==
    LET key == SubSeq(win, 1, WlenOf(ty))
    IN IF key \in DOMAIN ngramms THEN ngramms[key] ELSE 0

NoNgramms == [k \in {} |-> 0]

ToyDetector ==
    [languages |-> <<
        [name |-> "en",
         unigramms |-> (<<"e">> :> 10) @@ (<<"n">> :> 5) @@ (<<"t">> :> 8),
         bigramms |-> NoNgramms,
         trigramms |-> NoNgramms],
        [name |-> "xx",
         unigramms |-> (<<"e">> :> 1) @@ (<<"n">> :> 1) @@ (<<"t">> :> 1),
         bigramms |-> NoNgramms,
         trigramms |-> NoNgramms] >>,
     short_text_limit |-> default_short_text_limit]

MixedDetector ==
    [languages |-> <<
        [name |-> "en",
         unigramms |-> (<<"e">> :> 3),
         bigramms |-> (<<"t", "e">> :> 4),
         trigramms |-> (<<"t", "e", "n">> :> 2)],
        [name |-> "xx",
         unigramms |-> (<<"n">> :> 2),
         bigramms |-> (<<"e", "n">> :> 1),
         trigramms |-> NoNgramms],
        [name |-> "yy",
         unigramms |-> NoNgramms,
         bigramms |-> NoNgramms,
         trigramms |-> (<<"e", "n", "t">> :> 6)] >>,
     short_text_limit |-> default_short_text_limit]

Detectors == {ToyDetector, MixedDetector}

LangNames(det) == {det.languages[k].name : k \in 1 .. Len(det.languages)}

EltOf(det, name) ==
    det.languages[CHOOSE k \in 1 .. Len(det.languages) : det.languages[k].name = name]

NoCandidates == [k \in {} |-> 0]
----------------------------------------------------------------------------
(* rspamd_language_detector_process_ngramm_full *)

\* the body of the for loop for languages k .. len, on st = [candidates, orphans]
RECURSIVE full_from(_, _, _, _, _)
full_from(det, win, ty, st, k) ==
    IF k > Len(det.languages) THEN st
    ELSE LET elt == det.languages[k]
             freq == Lookup(NgrammsOf(elt, ty), win, ty)
             next ==
                IF elt.name \notin DOMAIN st.candidates
                THEN \* cand == NULL: the new result is filled in and then dropped;
                     \* nothing inserts it into candidates
                     [candidates |-> st.candidates,
                      orphans |-> Append(st.orphans, [lang |-> elt.name, prob |-> freq])]
                ELSE \* cand->prob += freq
                     [candidates |-> [st.candidates EXCEPT ![elt.name].prob = @ + freq],
                      orphans |-> st.orphans]
         IN full_from(det, win, ty, next, k + 1)

rspamd_language_detector_process_ngramm_full(det, win, ty, st) ==
    full_from(det, win, ty, st, 1)

(* rspamd_language_detector_process_ngramm_update *)

RECURSIVE SumOver(_, _)
SumOver(S, f) ==
    IF S = {} THEN 0
    ELSE LET x == CHOOSE y \in S : TRUE IN f[x] + SumOver(S \ {x}, f)

rspamd_language_detector_process_ngramm_update(det, win, ty, st) ==
    LET cands == st.candidates
        \* freq of the window in each candidate's own table (cand->elt)
        freq == [n \in DOMAIN cands |->
                   Lookup(NgrammsOf(EltOf(det, cands[n].lang), ty), win, ty)]
        total_freq == SumOver(DOMAIN cands, freq)
        updated == [candidates |-> [n \in DOMAIN cands |->
                                      [cands[n] EXCEPT !.prob = @ + freq[n]]],
                    orphans |-> st.orphans]
    IN IF total_freq = 0
       THEN rspamd_language_detector_process_ngramm_full(det, win, ty, updated)
       ELSE updated

\* the windows handed to the scans: UChar[3] buffers
ScanWindows ==
    { <<"e", "n", "t">>, <<"t", "e", "n">>, <<"n", "t", "e">>, <<Space, "t", "e">> }

----------------------------------------------------------------------------
(* Initial states: one per exercised function and input *)

IdleWalk ==
    /\ tok = <<>> /\ type = rs_unigramm /\ wlen = 0 /\ cur = 0
    /\ window = <<Uninit, Uninit, Uninit>>
    /\ emitted = <<>> /\ tok_reads = {} /\ wpc = "idle"

IdleSelect ==
    /\ ntokens = 0 /\ nwords = 0 /\ step_len = 0 /\ remainder = 0
    /\ i = 0 /\ out_idx = 0 /\ offsets_out = <<>> /\ rpc = "idle"

IdleScan ==
    /\ candidates = NoCandidates /\ candidates_ref = NoCandidates
    /\ orphans = <<>> /\ scanned = <<>> /\ spc = "idle"

IdleDetect ==
    /\ ucs_tokens = <<>> /\ words_len = 0 /\ result = Unset /\ dpc = "idle"

InitWalk ==
    /\ tok \in Tokens /\ type \in GrammTypes
    /\ wlen = 0 /\ cur = 0
    /\ window = <<Uninit, Uninit, Uninit>>
    /\ emitted = <<>> /\ tok_reads = {} /\ wpc = "switch"
    /\ d = ToyDetector
    /\ IdleSelect /\ IdleScan /\ IdleDetect

InitSelect ==
    /\ ntokens \in 0 .. MaxTokens /\ nwords \in 0 .. MaxTokens
    /\ step_len = 0 /\ remainder = 0 /\ i = 0 /\ out_idx = 0
    /\ offsets_out = <<>>
    /\ rpc = "start"
    /\ d = ToyDetector
    /\ IdleWalk /\ IdleScan /\ IdleDetect

InitScan ==
    /\ d \in Detectors
    /\ candidates = NoCandidates /\ candidates_ref = NoCandidates
    /\ orphans = <<>> /\ scanned = <<>> /\ spc = "scan"
    /\ IdleWalk /\ IdleSelect /\ IdleDetect

DetectInputs ==
    { <<>>, << <<"t", "e", "n", "t">> >>, << <<"n", "n", "n">> >>,
      << <<"t", "e", "n">>, <<"e", "n", "t">> >> }

InitDetect ==
    /\ d \in Detectors
    /\ ucs_tokens \in DetectInputs
    /\ words_len \in {d.short_text_limit - 1, d.short_text_limit}
    /\ result = Unset /\ dpc = "call"
    /\ IdleWalk /\ IdleSelect /\ IdleScan

Init == InitWalk \/ InitSelect \/ InitScan \/ InitDetect

----------------------------------------------------------------------------
(* rspamd_language_detector_detect_word: the switch, then the while loop *)

DetectWordSwitch ==
    /\ wpc = "switch"
    /\ wlen' = WlenOf(type)
    /\ cur' = 0
    /\ wpc' = "loop"
    /\ UNCHANGED <<tok, type, window, emitted, tok_reads>>
    /\ UNCHANGED <<select_vars, d, scan_vars, detect_vars>>

\* one evaluation of
\*   while ((cur = rspamd_language_detector_next_ngramm (tok, window, wlen, cur)) != -1)
\* with its empty body
DetectWordLoop ==
    /\ wpc = "loop"
    /\ \E mem \in MemContents :
         LET r == rspamd_language_detector_next_ngramm(tok, window, wlen, cur, mem)
         IN /\ cur' = r.ret
            /\ window' = r.window
            /\ tok_reads' = tok_reads \cup r.reads
            /\ IF r.ret # -1
               THEN /\ emitted' = Append(emitted, SubSeq(r.window, 1, wlen))
                    /\ wpc' = "loop"
               ELSE /\ emitted' = emitted
                    /\ wpc' = "done"
    /\ UNCHANGED <<tok, type, wlen>>
    /\ UNCHANGED <<select_vars, d, scan_vars, detect_vars>>

----------------------------------------------------------------------------
(* rspamd_language_detector_random_select *)

\* rspamd_random_uint64_fast (): any value; the model draws enough values to
\* reach every residue of every modulus used
RandomValues == 0 .. MaxTokens

\* a g_assert fails
SelectAssertFail ==
    /\ rpc = "start"
    /\ nwords = 0 \/ ntokens < nwords
    /\ rpc' = "abort"
    /\ UNCHANGED <<ntokens, nwords, step_len, remainder, i, out_idx, offsets_out>>
    /\ UNCHANGED <<walk_vars, d, scan_vars, detect_vars>>

\* up to the for loop's initialisation
SelectFirst ==
    /\ rpc = "start"
    /\ nwords # 0 /\ ntokens >= nwords
    /\ step_len' = ntokens \div nwords
    /\ remainder' = ntokens % nwords
    /\ out_idx' = 0
    /\ \E coin \in RandomValues :
         LET sel == coin % (step_len' + remainder')
         IN offsets_out' = (0 :> sel) @@ offsets_out
    /\ i' = step_len' + remainder'
    /\ rpc' = "loop"
    /\ UNCHANGED <<ntokens, nwords>>
    /\ UNCHANGED <<walk_vars, d, scan_vars, detect_vars>>

\* one iteration: the body, then i += step_len, out_idx ++
SelectLoop ==
    /\ rpc = "loop"
    /\ i < ntokens
    /\ \E coin \in RandomValues :
         LET sel == (coin % step_len) + i
         IN offsets_out' = (out_idx :> sel) @@ offsets_out
    /\ i' = i + step_len
    /\ out_idx' = out_idx + 1
    /\ UNCHANGED <<ntokens, nwords, step_len, remainder, rpc>>
    /\ UNCHANGED <<walk_vars, d, scan_vars, detect_vars>>

SelectReturn ==
    /\ rpc = "loop"
    /\ ~(i < ntokens)
    /\ rpc' = "done"
    /\ UNCHANGED <<ntokens, nwords, step_len, remainder, i, out_idx, offsets_out>>
    /\ UNCHANGED <<walk_vars, d, scan_vars, detect_vars>>

----------------------------------------------------------------------------
(* The scans, applied to a window sequence *)

ScanState == [candidates |-> candidates, orphans |-> orphans]
RefState == [candidates |-> candidates_ref, orphans |-> <<>>]

FullScan ==
    /\ spc = "scan"
    /\ Len(scanned) < MaxWindows
    /\ \E win \in ScanWindows, ty \in GrammTypes :
         LET st == rspamd_language_detector_process_ngramm_full(d, win, ty, ScanState)
             ref == rspamd_language_detector_process_ngramm_full(d, win, ty, RefState)
         IN /\ candidates' = st.candidates
            /\ orphans' = st.orphans
            /\ candidates_ref' = ref.candidates
            /\ scanned' = Append(scanned, [window |-> win, type |-> ty, mode |-> "full"])
    /\ UNCHANGED spc
    /\ UNCHANGED <<walk_vars, select_vars, d, detect_vars>>

UpdateScan ==
    /\ spc = "scan"
    /\ Len(scanned) < MaxWindows
    /\ \E win \in ScanWindows, ty \in GrammTypes :
         LET st == rspamd_language_detector_process_ngramm_update(d, win, ty, ScanState)
             ref == rspamd_language_detector_process_ngramm_full(d, win, ty, RefState)
         IN /\ candidates' = st.candidates
            /\ orphans' = st.orphans
            /\ candidates_ref' = ref.candidates
            /\ scanned' = Append(scanned, [window |-> win, type |-> ty, mode |-> "update"])
    /\ UNCHANGED spc
    /\ UNCHANGED <<walk_vars, select_vars, d, detect_vars>>

----------------------------------------------------------------------------
(* rspamd_language_detector_detect *)

\* what the caller may receive from a function that reaches its closing brace
\* without a return statement: any pointer value
ReturnValues == LangNames(d) \cup {NULL, Garbage}

\* The body holds one empty if and no other statement: no table is created,
\* no window is scanned, and control flows off the end.
Detect ==
    /\ dpc = "call"
    /\ IF words_len < d.short_text_limit THEN TRUE ELSE TRUE
    /\ result' \in ReturnValues
    /\ dpc' = "done"
    /\ UNCHANGED <<ucs_tokens, words_len>>
    /\ UNCHANGED <<walk_vars, select_vars, d, scan_vars>>

----------------------------------------------------------------------------
Next ==
    \/ DetectWordSwitch
    \/ DetectWordLoop
    \/ SelectAssertFail
    \/ SelectFirst
    \/ SelectLoop
    \/ SelectReturn
    \/ FullScan
    \/ UpdateScan
    \/ Detect

Spec == Init /\ [][Next]_vars

\* The window walk on its own. The loop runs in one thread with nothing to wait
\* for, so an iteration that can be taken is taken.
WalkNext == DetectWordSwitch \/ DetectWordLoop

WalkSpec == InitWalk /\ [][WalkNext]_vars /\ WF_vars(WalkNext)
----------------------------------------------------------------------------
(* Properties *)

\* every window of w characters of the token bracketed by one space on each side
PaddedWindows(t, w) ==
    LET p == <<Space>> \o t \o <<Space>>
    IN [k \in 1 .. Len(p) - w + 1 |-> SubSeq(p, k, k + w - 1)]

\* the summed count of language `name` over the windows in `log`
RECURSIVE SumFreq(_, _)
SumFreq(name, log) ==
    IF log = <<>> THEN 0
    ELSE LET e == log[Len(log)]
         IN Lookup(NgrammsOf(EltOf(d, name), e.type), e.window, e.type)
            + SumFreq(name, SubSeq(log, 1, Len(log) - 1))

Tent == <<"t", "e", "n", "t">>

\* C1: a detection call on a non-empty token sequence in which some language has
\* a non-zero score returns the name of a language whose accumulated score is
\* maximal; with the toy profiles "en" and "xx" and the single token "tent",
\* "en" scores strictly higher than "xx" and "en" is returned.
C1_ReturnsMaxScore ==
    dpc = "done" /\ ucs_tokens # <<>> =>
        /\ (\E n \in DOMAIN candidates : candidates[n].prob > 0) =>
              /\ result \in DOMAIN candidates
              /\ \A m \in DOMAIN candidates :
                    candidates[result].prob >= candidates[m].prob
        /\ d = ToyDetector /\ ucs_tokens = <<Tent>> /\ words_len >= d.short_text_limit =>
              /\ {"en", "xx"} \subseteq DOMAIN candidates
              /\ candidates["en"].prob > candidates["xx"].prob
              /\ result = "en"

\* C2: a detection call on an empty token sequence, or one in which every score
\* is zero, returns the explicit "undetermined" outcome and nothing else.
C2_UndeterminedOnNoSignal ==
    /\ dpc = "done"
    /\ \/ ucs_tokens = <<>>
       \/ \A n \in DOMAIN candidates : candidates[n].prob = 0
    => result = NULL

\* C3: at or above the short-text threshold the call processes unigram windows,
\* then bigram windows, then trigram windows; below it only trigram windows.
C3_PhaseOrder ==
    dpc = "done" /\ ucs_tokens # <<>> =>
        LET types == [k \in 1 .. Len(scanned) |-> scanned[k].type]
            used == {types[k] : k \in 1 .. Len(types)}
        IN IF words_len >= d.short_text_limit
           THEN /\ used = {rs_unigramm, rs_bigramm, rs_trigramm}
                /\ \A k \in 1 .. Len(types) - 1 : types[k] <= types[k + 1]
           ELSE used = {rs_trigramm}

\* C4: for window sizes 2 and 3 the walk from offset 0 leaves, in order, the
\* leading-boundary window, every window of w token characters, and the
\* trailing-boundary window, each exactly once.
C4_BoundaryWindowsEmitted ==
    wpc = "done" /\ wlen \in {2, 3} /\ Len(tok) >= wlen - 1 =>
        emitted = PaddedWindows(tok, wlen)

\* C5: for window size 1 the walk from offset 0 emits exactly L windows, the
\* i-th being the i-th character of the token.
C5_UnigramWindowsEmitted ==
    wpc = "done" /\ wlen = 1 =>
        emitted = [k \in 1 .. Len(tok) |-> <<tok[k]>>]

\* C6: random_select on N >= k >= 1 writes every slot 0..k-1, slot j holding an
\* index of partition j; so all indices lie in [0, N) and strictly increase.
C6_OneIndexPerPartition ==
    rpc = "done" =>
        LET step == ntokens \div nwords
            rem == ntokens % nwords
            lo(j) == IF j = 0 THEN 0 ELSE step + rem + (j - 1) * step
            hi(j) == step + rem + j * step
        IN /\ \A j \in 0 .. nwords - 1 :
                /\ j \in DOMAIN offsets_out
                /\ lo(j) <= offsets_out[j]
                /\ offsets_out[j] < hi(j)
                /\ offsets_out[j] < ntokens
           /\ \A j \in 0 .. nwords - 2 :
                {j, j + 1} \subseteq DOMAIN offsets_out /\ offsets_out[j] < offsets_out[j + 1]

\* C7: once a window has been scanned every known language has a candidate
\* (the first scan of a call is, or falls back to, a full scan), and each
\* candidate's score is the sum of its language's counts over the scanned windows.
C7_ScoresAreSums ==
    /\ Len(scanned) >= 1 => LangNames(d) \subseteq DOMAIN candidates
    /\ \A n \in DOMAIN candidates : candidates[n].prob = SumFreq(n, scanned)

C9_WalkTerminates ==
    /\ [][wpc = "loop" /\ cur' # -1 => cur' = cur + 1]_vars
    /\ [](Len(emitted) <= Len(tok) + 1)
    /\ [](wpc = "done" => cur = -1)
    /\ (wpc = "loop") ~> (wpc = "done")

\* a trigram walk over a token of three or more characters has run to its end
C9_Witness ==
    /\ wpc = "done" /\ wlen = 3 /\ Len(tok) >= 3
    /\ Len(emitted) = Len(tok) - 1

\* C10: every read of a token character by the walk is at an index i with
\* 0 <= i < L.
C10_ReadsInsideToken ==
    \A idx \in tok_reads : 0 <= idx /\ idx < Len(tok)

====
